---- MODULE Spec2Model ----
(***************************************************************************)
(* Model of the modular chat server (src/src): ServerState, MessageHandler *)
(* and ChatServer.handle_client.                                           *)
(*                                                                         *)
(* Scheduling.  The server runs on one asyncio event loop.  A coroutine    *)
(* gives up control only where it really suspends: websocket.recv(), the   *)
(* iteration of "async for ... in websocket", websocket.send() and         *)
(* asyncio.gather().  ServerState.lock is never held across a suspension   *)
(* (no critical section contains an await), so acquiring it never waits    *)
(* and every ServerState method runs without interruption.  One action of  *)
(* the model is the code a handler runs between two suspensions.           *)
(***************************************************************************)
EXTENDS Integers, FiniteSets, Sequences, TLC

NumConns == 3                          \* connections accepted during a run

Conns == 1..NumConns                   \* websocket objects, one per connection
Usernames == {"alice", "bob"}
RoomNames == {"default", "dev"}        \* room names a client may send
None == "None"                         \* Python None for strings
NoWs == 0                              \* Python None for a websocket

VARIABLES
    rooms,                  \* ServerState.rooms: room name -> Room.clients
    clients,                \* ServerState.clients: username -> Client
    websocket_to_username,  \* ServerState.websocket_to_username
    pc,                     \* position of handle_client(websocket)
    open,                   \* the transport still connected to the peer
    username,               \* handle_client's local variable `username`
    response,               \* handle_client's local variable `response`
    bcast,                  \* the broadcast_to_room call the handler awaits
    replies,                \* the direct replies sent for the latest inbound frame
    client,                 \* src/server.py: handle_connection's local variable `client`
    inbox,                  \* src/server.py: frames the library holds for the handler
    lock                    \* ServerState.lock: the websocket whose handler holds it

vars == <<rooms, clients, websocket_to_username, pc, open, username,
          response, bcast, replies, client, inbox, lock>>

----------------------------------------------------------------------------
(* Python dict helpers *)
Put(f, k, v) == [x \in DOMAIN f \cup {k} |-> IF x = k THEN v ELSE f[x]]
Del(f, k) == [x \in DOMAIN f \ {k} |-> f[x]]
Get(f, k, dflt) == IF k \in DOMAIN f THEN f[k] ELSE dflt

Client(ws, user) == [websocket |-> ws, username |-> user, current_room |-> "default"]

\* src/server.py: `client = None` in handle_connection
NoClient == [username |-> None, current_room |-> None]

\* ServerState.__init__
ServerState0 ==
    [rooms |-> [r \in {"default"} |-> {}],
     clients |-> [u \in {} |-> Client(NoWs, None)],
     websocket_to_username |-> [w \in {} |-> None]]

\* the aggregate the three maps form
State ==
    [rooms |-> rooms, clients |-> clients,
     websocket_to_username |-> websocket_to_username]

\* room.clients.discard(user) when the room exists
Discard(rms, room_name, user) ==
    IF room_name \in DOMAIN rms
    THEN [rms EXCEPT ![room_name] = @ \ {user}]
    ELSE rms

\* add_client without the test for a taken username
add_client_overwrite(s, ws, user) ==
    [ret |-> TRUE,
     state |-> [rooms |-> [s.rooms EXCEPT !["default"] = @ \cup {user}],
                clients |-> Put(s.clients, user, Client(ws, user)),
                websocket_to_username |-> Put(s.websocket_to_username, ws, user)]]

\* add_client that forgets the default room
add_client_no_room(s, ws, user) ==
    IF user \in DOMAIN s.clients
    THEN [ret |-> FALSE, state |-> s]
    ELSE [ret |-> TRUE,
          state |-> [rooms |-> s.rooms,
                     clients |-> Put(s.clients, user, Client(ws, user)),
                     websocket_to_username |-> Put(s.websocket_to_username, ws, user)]]

\* add_client that binds the websocket before it tests the username
add_client_bind_first(s, ws, user) ==
    LET bound == [s EXCEPT !.websocket_to_username = Put(@, ws, user)] IN
    IF user \in DOMAIN s.clients
    THEN [ret |-> FALSE, state |-> bound]
    ELSE [ret |-> TRUE,
          state |-> [rooms |-> [s.rooms EXCEPT !["default"] = @ \cup {user}],
                     clients |-> Put(s.clients, user, Client(ws, user)),
                     websocket_to_username |-> bound.websocket_to_username]]

add_client(s, ws, user) ==
    IF user \in DOMAIN s.clients
    THEN [ret |-> FALSE, state |-> s]
    ELSE [ret |-> TRUE,
          state |-> [rooms |-> [s.rooms EXCEPT !["default"] = @ \cup {user}],
                     clients |-> Put(s.clients, user, Client(ws, user)),
                     websocket_to_username |-> Put(s.websocket_to_username, ws, user)]]

\* remove_client that leaves the username in its room
remove_client_keep_room(s, ws) ==
    LET user == Get(s.websocket_to_username, ws, None) IN
    IF user = None
    THEN [ret |-> None, state |-> s]
    ELSE [ret |-> user,
          state |-> [rooms |-> s.rooms,
                     clients |-> Del(s.clients, user),
                     websocket_to_username |-> Del(s.websocket_to_username, ws)]]

\* remove_client that forgets the websocket binding only
remove_client_keep_client(s, ws) ==
    LET user == Get(s.websocket_to_username, ws, None) IN
    IF user = None
    THEN [ret |-> None, state |-> s]
    ELSE [ret |-> user,
          state |-> [s EXCEPT !.websocket_to_username = Del(@, ws)]]

\* remove_client that empties the room the user was in
remove_client_clear_room(s, ws) ==
    LET user == Get(s.websocket_to_username, ws, None) IN
    IF user = None
    THEN [ret |-> None, state |-> s]
    ELSE [ret |-> user,
          state |-> [rooms |-> IF user \in DOMAIN s.clients
                               THEN [s.rooms EXCEPT ![s.clients[user].current_room] = {}]
                               ELSE s.rooms,
                     clients |-> Del(s.clients, user),
                     websocket_to_username |-> Del(s.websocket_to_username, ws)]]

remove_client(s, ws) ==
    LET user == Get(s.websocket_to_username, ws, None) IN
    IF user = None
    THEN [ret |-> None, state |-> s]
    ELSE [ret |-> user,
          state |-> [rooms |-> IF user \in DOMAIN s.clients
                               THEN Discard(s.rooms, s.clients[user].current_room, user)
                               ELSE s.rooms,
                     clients |-> Del(s.clients, user),
                     websocket_to_username |-> Del(s.websocket_to_username, ws)]]

\* create_room that replaces an existing room by an empty one
create_room_reset(s, room_name) ==
    [ret |-> room_name \notin DOMAIN s.rooms,
     state |-> [s EXCEPT !.rooms = Put(s.rooms, room_name, {})]]

\* create_room whose new Room shares the member set of the default room
create_room_shared(s, room_name) ==
    IF room_name \in DOMAIN s.rooms
    THEN [ret |-> FALSE, state |-> s]
    ELSE [ret |-> TRUE,
          state |-> [s EXCEPT !.rooms = Put(s.rooms, room_name, s.rooms["default"])]]

create_room(s, room_name) ==
    IF room_name \in DOMAIN s.rooms
    THEN [ret |-> FALSE, state |-> s]
    ELSE [ret |-> TRUE, state |-> [s EXCEPT !.rooms = Put(s.rooms, room_name, {})]]

\* join_room that does not leave the current room
join_room_keep_old(s, user, room_name) ==
    IF user \notin DOMAIN s.clients \/ room_name \notin DOMAIN s.rooms
    THEN [ret |-> FALSE, state |-> s]
    ELSE [ret |-> TRUE,
          state |-> [s EXCEPT !.rooms[room_name] = @ \cup {user},
                              !.clients[user].current_room = room_name]]

\* join_room that opens the room when it does not exist
join_room_create(s, user, room_name) ==
    IF user \notin DOMAIN s.clients
    THEN [ret |-> FALSE, state |-> s]
    ELSE LET left == Discard(s.rooms, s.clients[user].current_room, user) IN
         [ret |-> TRUE,
          state |-> [s EXCEPT !.rooms = Put(left, room_name,
                                            Get(left, room_name, {}) \cup {user}),
                              !.clients[user].current_room = room_name]]

\* join_room that enters the new room before it leaves the current one
join_room_add_first(s, user, room_name) ==
    IF user \notin DOMAIN s.clients \/ room_name \notin DOMAIN s.rooms
    THEN [ret |-> FALSE, state |-> s]
    ELSE LET added == [s.rooms EXCEPT ![room_name] = @ \cup {user}] IN
         [ret |-> TRUE,
          state |-> [s EXCEPT !.rooms = Discard(added, s.clients[user].current_room,
                                                user),
                              !.clients[user].current_room = room_name]]

\* join_room that leaves the current room and does not enter the new one
join_room_no_add(s, user, room_name) ==
    IF user \notin DOMAIN s.clients \/ room_name \notin DOMAIN s.rooms
    THEN [ret |-> FALSE, state |-> s]
    ELSE [ret |-> TRUE,
          state |-> [s EXCEPT !.rooms = Discard(s.rooms, s.clients[user].current_room,
                                                user),
                              !.clients[user].current_room = room_name]]

join_room(s, user, room_name) ==
    IF user \notin DOMAIN s.clients \/ room_name \notin DOMAIN s.rooms
    THEN [ret |-> FALSE, state |-> s]
    ELSE LET left == Discard(s.rooms, s.clients[user].current_room, user) IN
         [ret |-> TRUE,
          state |-> [s EXCEPT !.rooms = [left EXCEPT ![room_name] = @ \cup {user}],
                              !.clients[user].current_room = room_name]]

\* leave_room without the test for the default room
leave_room_always(s, user) ==
    IF user \notin DOMAIN s.clients
    THEN [ret |-> None, state |-> s]
    ELSE LET old_room_name == s.clients[user].current_room
             left == Discard(s.rooms, old_room_name, user) IN
         [ret |-> old_room_name,
          state |-> [s EXCEPT !.rooms = [left EXCEPT !["default"] = @ \cup {user}],
                              !.clients[user].current_room = "default"]]

\* leave_room that does not take the user out of the room it leaves
leave_room_keep_old(s, user) ==
    IF user \notin DOMAIN s.clients
    THEN [ret |-> None, state |-> s]
    ELSE LET old_room_name == s.clients[user].current_room IN
         IF old_room_name = "default"
         THEN [ret |-> None, state |-> s]
         ELSE [ret |-> old_room_name,
               state |-> [s EXCEPT !.rooms["default"] = @ \cup {user},
                                   !.clients[user].current_room = "default"]]

leave_room(s, user) ==
    IF user \notin DOMAIN s.clients
    THEN [ret |-> None, state |-> s]
    ELSE LET old_room_name == s.clients[user].current_room
             left == Discard(s.rooms, old_room_name, user) IN
         IF old_room_name = "default"
         THEN [ret |-> None, state |-> s]
         ELSE [ret |-> old_room_name,
               state |-> [s EXCEPT !.rooms = [left EXCEPT !["default"] = @ \cup {user}],
                                   !.clients[user].current_room = "default"]]

get_room_clients(s, room_name) == Get(s.rooms, room_name, {})

\* get_client_room that answers with the room of a new Client
get_client_room_default(s, user) ==
    IF user \in DOMAIN s.clients THEN "default" ELSE None

get_client_room(s, user) ==
    IF user \in DOMAIN s.clients THEN s.clients[user].current_room ELSE None

get_client_websocket(s, user) ==
    IF user \in DOMAIN s.clients THEN s.clients[user].websocket ELSE NoWs

\* list_rooms that leaves out the rooms without members
list_rooms_nonempty(s) ==
    [r \in {x \in DOMAIN s.rooms : s.rooms[x] # {}} |-> Cardinality(s.rooms[r])]

list_rooms(s) == [r \in DOMAIN s.rooms |-> Cardinality(s.rooms[r])]

get_username_from_websocket(s, ws) == Get(s.websocket_to_username, ws, None)

----------------------------------------------------------------------------
(* protocol.py and handlers.py *)

\* an inbound frame: a JSON action/data message, or anything else
Frame(ok, action, room_name, message) ==
    [wellformed |-> ok, action |-> action, isdict |-> TRUE,
     room_name |-> room_name, message |-> message]

\* a frame whose "data" is not a JSON object: data.get raises AttributeError
NoDictFrame(action) == [Frame(TRUE, action, None, None) EXCEPT !.isdict = FALSE]

\* a room name that is a JSON list: looking it up in a dict raises TypeError
Unhashable == "['dev']"

Payloads ==
    {Frame(TRUE, a, r, None) : a \in {"create_room", "join_room"},
                               r \in RoomNames \cup {None}}
    \cup {Frame(TRUE, "send_message", None, m) : m \in {"hi", None}}
    \cup {Frame(TRUE, a, None, None) :
             a \in {"leave_room", "list_rooms", "list_users", "ping"}}
    \cup {Frame(FALSE, None, None, None)}
    \cup {NoDictFrame(a) : a \in {"create_room", "send_message", "leave_room"}}
    \cup {Frame(TRUE, a, Unhashable, None) : a \in {"create_room", "join_room"}}

\* ProtocolMessage.from_json: a payload that does not decode becomes the
\* message create_error(...) builds, whose action is "error"
from_json(payload) ==
    IF payload.wellformed
    THEN [action |-> payload.action,
          data |-> [isdict |-> payload.isdict, room_name |-> payload.room_name,
                    message |-> payload.message]]
    ELSE [action |-> "error",
          data |-> [isdict |-> TRUE, room_name |-> None, message |-> None]]

NoBcast ==
    [kind |-> None, room_name |-> None, username |-> None,
     exclude_username |-> None, targets |-> {}, pending |-> {}, failed |-> {}]

\* broadcast_to_room that takes the members of every room, not of room_name
broadcast_to_room_all(s, room_name, kind, user, exclude_username) ==
    LET members == UNION {s.rooms[r] : r \in DOMAIN s.rooms}
        send_tasks == {get_client_websocket(s, u) :
                         u \in members \ {exclude_username}} \ {NoWs} IN
    [kind |-> kind, room_name |-> room_name, username |-> user,
     exclude_username |-> exclude_username,
     targets |-> send_tasks, pending |-> send_tasks, failed |-> {}]

\* MessageHandler.broadcast_to_room up to asyncio.gather: the snapshot of the
\* room and the websocket of each member but the excluded one
broadcast_to_room(s, room_name, kind, user, exclude_username) ==
    LET members == get_room_clients(s, room_name)
        send_tasks == {get_client_websocket(s, u) :
                         u \in members \ {exclude_username}} \ {NoWs} IN
    [kind |-> kind, room_name |-> room_name, username |-> user,
     exclude_username |-> exclude_username,
     targets |-> send_tasks, pending |-> send_tasks, failed |-> {}]

\* the optional `data` argument of create_success and create_error left out
NoData == [k \in {} |-> None]

\* ProtocolMessage.create_success, ProtocolMessage.create_error (no caller
\* passes it data) and the value of `response` before the handler has
\* returned; `data` holds the entries the payload has beside its text
create_success(info_msg, data) ==
    [action |-> "success", text |-> info_msg, data |-> data]
create_error(error_msg) == [action |-> "error", text |-> error_msg, data |-> NoData]
NoResponse == [action |-> None, text |-> None, data |-> NoData]

Result(resp, s, b) == [response |-> resp, state |-> s, bcast |-> b]

\* the handler raised: handle_message has not got a response from it
Raised(s) == Result(NoResponse, s, NoBcast)

handle_create_room(s, data) ==
    IF ~data.isdict THEN Raised(s)
    ELSE IF data.room_name = None
    THEN Result(create_error("Nom de salon manquant"), s, NoBcast)
    ELSE IF data.room_name = Unhashable THEN Raised(s)
    ELSE LET r == create_room(s, data.room_name) IN
         IF r.ret THEN Result(create_success("Salon cree",
                                                [room_name |-> data.room_name]),
                                 r.state, NoBcast)
                  ELSE Result(create_error("Le salon existe deja"), r.state, NoBcast)

\* handle_join_room that broadcasts without exclude_username
handle_join_room_echo(s, ws, data) ==
    LET user == get_username_from_websocket(s, ws) IN
    IF ~data.isdict THEN Raised(s)
    ELSE IF data.room_name = None
    THEN Result(create_error("Nom de salon manquant"), s, NoBcast)
    ELSE IF user = None
    THEN Result(create_error("Utilisateur non connecte"), s, NoBcast)
    ELSE IF user \in DOMAIN s.clients /\ data.room_name = Unhashable THEN Raised(s)
    ELSE LET r == join_room(s, user, data.room_name) IN
         IF r.ret
         THEN Result(create_success("Vous avez rejoint le salon",
                                    [room_name |-> data.room_name]), r.state,
                     broadcast_to_room(r.state, data.room_name, "joined", user, None))
         ELSE Result(create_error("Impossible de rejoindre"), r.state, NoBcast)

handle_join_room(s, ws, data) ==
    LET user == get_username_from_websocket(s, ws) IN
    IF ~data.isdict THEN Raised(s)
    ELSE IF data.room_name = None
    THEN Result(create_error("Nom de salon manquant"), s, NoBcast)
    ELSE IF user = None
    THEN Result(create_error("Utilisateur non connecte"), s, NoBcast)
    ELSE IF user \in DOMAIN s.clients /\ data.room_name = Unhashable THEN Raised(s)
    ELSE LET r == join_room(s, user, data.room_name) IN
         IF r.ret
         THEN Result(create_success("Vous avez rejoint le salon",
                                    [room_name |-> data.room_name]), r.state,
                     broadcast_to_room(r.state, data.room_name, "joined", user, user))
         ELSE Result(create_error("Impossible de rejoindre"), r.state, NoBcast)

\* handle_leave_room that sends no notice
handle_leave_room_silent(s, ws) ==
    LET user == get_username_from_websocket(s, ws) IN
    IF user = None
    THEN Result(create_error("Utilisateur non connecte"), s, NoBcast)
    ELSE LET r == leave_room(s, user) IN
         IF r.ret # None
         THEN Result(create_success("Vous avez quitte le salon",
                                    [old_room |-> r.ret, new_room |-> "default"]),
                     r.state, NoBcast)
         ELSE Result(create_error("Vous etes deja dans le salon par defaut"),
                     r.state, NoBcast)

handle_leave_room(s, ws) ==
    LET user == get_username_from_websocket(s, ws) IN
    IF user = None
    THEN Result(create_error("Utilisateur non connecte"), s, NoBcast)
    ELSE LET r == leave_room(s, user) IN
         IF r.ret # None
         THEN Result(create_success("Vous avez quitte le salon",
                                    [old_room |-> r.ret, new_room |-> "default"]),
                     r.state,
                     broadcast_to_room(r.state, r.ret, "left", user, None))
         ELSE Result(create_error("Vous etes deja dans le salon par defaut"),
                     r.state, NoBcast)

handle_send_message(s, ws, data) ==
    LET user == get_username_from_websocket(s, ws) IN
    IF ~data.isdict THEN Raised(s)
    ELSE IF user = None
    THEN Result(create_error("Utilisateur non connecte"), s, NoBcast)
    ELSE IF data.message = None
    THEN Result(create_error("Message vide"), s, NoBcast)
    ELSE LET room_name == get_client_room(s, user) IN
         IF room_name = None
         THEN Result(create_error("Vous n'etes dans aucun salon"), s, NoBcast)
         ELSE Result(create_success("Message envoye", NoData), s,
                     broadcast_to_room(s, room_name, "chat", user, None))

handle_list_rooms(s) ==
    LET rms == list_rooms(s) IN
    Result(create_success("Liste des salons", [rooms |-> rms]), s, NoBcast)

\* a request without "room_name" asks for the default room
handle_list_users(s, data) ==
    IF ~data.isdict \/ data.room_name = Unhashable THEN Raised(s)
    ELSE LET room_name == IF data.room_name = None THEN "default"
                                                   ELSE data.room_name
             users == get_room_clients(s, room_name) IN
         Result(create_success("Utilisateurs dans le salon",
                               [room_name |-> room_name, users |-> users]),
                s, NoBcast)

\* f"Action inconnue: {action}"
UnknownAction(action) ==
    IF action = "error" THEN "Action inconnue: error" ELSE "Action inconnue: ping"

\* a chain whose else branch falls through to a default handler
dispatch_fallthrough(s, ws, message) ==
    CASE message.action = "create_room" -> handle_create_room(s, message.data)
      [] message.action = "join_room" -> handle_join_room(s, ws, message.data)
      [] message.action = "leave_room" -> handle_leave_room(s, ws)
      [] message.action = "send_message" -> handle_send_message(s, ws, message.data)
      [] message.action = "list_users" -> handle_list_users(s, message.data)
      [] OTHER -> handle_list_rooms(s)

\* the if/elif chain of handle_message
dispatch(s, ws, message) ==
    CASE message.action = "create_room" -> handle_create_room(s, message.data)
      [] message.action = "join_room" -> handle_join_room(s, ws, message.data)
      [] message.action = "leave_room" -> handle_leave_room(s, ws)
      [] message.action = "send_message" -> handle_send_message(s, ws, message.data)
      [] message.action = "list_rooms" -> handle_list_rooms(s)
      [] message.action = "list_users" -> handle_list_users(s, message.data)
      [] OTHER -> Result(create_error(UnknownAction(message.action)), s, NoBcast)

\* handle_message without its try/except
handle_message_nocatch(s, ws, message) == dispatch(s, ws, message)

\* handle_message: the except clause turns an exception of a handler into
\* an error response
handle_message(s, ws, message) ==
    LET r == dispatch(s, ws, message) IN
    IF r.response = NoResponse
    THEN Result(create_error("Erreur interne"), r.state, NoBcast)
    ELSE r

\* send_message whose exception ends the fan-out
send_message_abort(b, ws, delivered) ==
    IF delivered
    THEN [b EXCEPT !.pending = @ \ {ws}]
    ELSE [b EXCEPT !.pending = {}, !.failed = @ \cup {ws}]

\* MessageHandler.send_message: the exception of a failed send is logged
send_message(b, ws, delivered) ==
    [b EXCEPT !.pending = @ \ {ws},
              !.failed = IF delivered THEN @ ELSE @ \cup {ws}]

\* a gather that raises the exception of a failed send, which the except
\* clause of handle_message turns into an error response
after_gather_raise(b, resp) ==
    IF b.failed # {} THEN create_error("Erreur interne") ELSE resp

\* asyncio.gather(*send_tasks, return_exceptions=True) has returned: the
\* handler returns the response it had prepared
after_gather(b, resp) == resp

\* a loop body whose error reply is sent on the normal path too
loop_sends_twice(resp) == <<resp.action, "error">>

\* the sends of one pass through the body of the receive loop: the response
\* on the normal path, one error message if the body raised
loop_sends(resp) ==
    IF resp.action \in {"success", "error"} THEN <<resp.action>> ELSE <<"error">>

\* whether handle_message enters `async with self.lock` for a message: the
\* handlers that reach a lock-guarded method of ServerState
takes_lock(s, ws, message) ==
    LET data == message.data
        user == get_username_from_websocket(s, ws) IN
    CASE message.action = "create_room" -> data.isdict /\ data.room_name # None
      [] message.action = "join_room" ->
            data.isdict /\ data.room_name # None /\ user # None
      [] message.action = "leave_room" -> user # None
      [] message.action = "send_message" ->
            /\ data.isdict /\ user # None /\ data.message # None
            /\ get_client_room(s, user) # None
      [] message.action = "list_rooms" -> TRUE
      [] message.action = "list_users" -> data.isdict
      [] OTHER -> FALSE

\* a with-block whose body suspends: the handler still holds the lock at
\* its next suspension
async_with_lock_held(ws) == ws

\* the lock after `async with self.lock:` entered by the handler of ws: no
\* body has an await, the lock is released before the handler suspends
async_with_lock(ws) == NoWs

\* a step of the handler of c that enters `async with self.lock` goes on
\* only on a free lock (asyncio.Lock is not reentrant)
WithLock(c, taken) ==
    IF taken
    THEN lock = NoWs /\ lock' = async_with_lock(c)
    ELSE UNCHANGED lock

----------------------------------------------------------------------------
(* server.py: ChatServer.handle_client, one instance per connection *)

Init ==
    /\ rooms = ServerState0.rooms
    /\ client = [c \in Conns |-> NoClient]
    /\ inbox = [c \in Conns |-> 0]
    /\ lock = NoWs
    /\ clients = ServerState0.clients
    /\ websocket_to_username = ServerState0.websocket_to_username
    /\ pc = [c \in Conns |-> "connecting"]
    /\ open = [c \in Conns |-> TRUE]
    /\ username = [c \in Conns |-> None]
    /\ response = [c \in Conns |-> NoResponse]
    /\ bcast = [c \in Conns |-> NoBcast]
    /\ replies = [c \in Conns |-> <<>>]

SetState(s) ==
    /\ rooms' = s.rooms
    /\ clients' = s.clients
    /\ websocket_to_username' = s.websocket_to_username

\* the handler has returned; the library closes the connection
Finish(c) ==
    /\ pc' = [pc EXCEPT ![c] = "done"]
    /\ open' = [open EXCEPT ![c] = FALSE]
    /\ response' = [response EXCEPT ![c] = NoResponse]
    /\ bcast' = [bcast EXCEPT ![c] = NoBcast]

\* the finally block of handle_client
Cleanup(c) ==
    /\ IF username[c] # None
       THEN SetState(remove_client(State, c).state)
       ELSE UNCHANGED <<rooms, clients, websocket_to_username>>
    /\ username' = [username EXCEPT ![c] = None]
    /\ Finish(c)

\* websockets.serve accepts the connections one after another: the websocket
\* objects are numbered in the order in which their handlers start
Accepted(c) == \A d \in Conns : d < c => pc[d] # "connecting"

\* the peer, or the network, closes the connection
Close(c) ==
    /\ pc[c] # "done"
    /\ Accepted(c)
    /\ open[c]
    /\ open' = [open EXCEPT ![c] = FALSE]
    /\ UNCHANGED <<rooms, clients, websocket_to_username, pc, username,
                   response, bcast, replies, client, inbox, lock>>

\* register_client: the first frame carries the username (None: missing)
Register(c, user) ==
    /\ pc[c] = "connecting"
    /\ UNCHANGED <<client, inbox>>
    /\ WithLock(c, user # None)
    /\ Accepted(c)
    /\ open[c]
    /\ IF user = None
       THEN \* error reply, register_client returns None, the handler returns
            /\ replies' = [replies EXCEPT ![c] = <<"Username manquant">>]
            /\ Cleanup(c)
       ELSE LET r == add_client(State, c, user) IN
            /\ SetState(r.state)
            /\ IF r.ret
               THEN /\ pc' = [pc EXCEPT ![c] = "welcome"]
                    /\ UNCHANGED <<open, username, response, bcast, replies>>
               ELSE \* error reply, register_client returns None; the
                    \* finally block finds username = None
                    /\ replies' = [replies EXCEPT ![c] = <<"Username deja utilise">>]
                    /\ username' = [username EXCEPT ![c] = None]
                    /\ Finish(c)

\* register_client: recv() raises on a connection closed before its first frame
RegisterClosed(c) ==
    /\ pc[c] = "connecting"
    /\ UNCHANGED <<client, inbox>>
    /\ WithLock(c, username[c] # None)
    /\ ~open[c]
    /\ UNCHANGED replies
    /\ Cleanup(c)

\* register_client: the welcome reply.  A failed send is caught by the
\* except clause of register_client, which returns None
Welcome(c) ==
    /\ pc[c] = "welcome"
    /\ UNCHANGED <<client, inbox>>
    /\ WithLock(c, ~open[c] /\ username[c] # None)
    /\ IF open[c]
       THEN /\ username' = [username EXCEPT ![c] = websocket_to_username[c]]
            /\ pc' = [pc EXCEPT ![c] = "loop"]
            /\ replies' = [replies EXCEPT ![c] = <<"success">>]
            /\ UNCHANGED <<rooms, clients, websocket_to_username, open,
                           response, bcast>>
       ELSE /\ UNCHANGED replies
            /\ Cleanup(c)

\* the receive loop takes the next frame and runs handle_message up to its
\* first suspension
Recv(c, payload) ==
    /\ pc[c] = "loop"
    /\ UNCHANGED <<client, inbox>>
    /\ WithLock(c, takes_lock(State, c, from_json(payload)))
    /\ open[c]
    /\ LET r == handle_message(State, c, from_json(payload)) IN
       /\ SetState(r.state)
       /\ response' = [response EXCEPT ![c] = r.response]
       /\ bcast' = [bcast EXCEPT ![c] = r.bcast]
    /\ pc' = [pc EXCEPT ![c] = "reply"]
    /\ replies' = [replies EXCEPT ![c] = <<>>]
    /\ UNCHANGED <<open, username>>

\* the receive loop ends on a closed connection: the end of the stream is
\* the latest thing received and nothing is sent in answer
LoopClosed(c) ==
    /\ pc[c] = "loop"
    /\ UNCHANGED <<client, inbox>>
    /\ WithLock(c, username[c] # None)
    /\ ~open[c]
    /\ replies' = [replies EXCEPT ![c] = <<>>]
    /\ Cleanup(c)

\* one of the send tasks asyncio.gather runs
Deliver(c, ws) ==
    /\ pc[c] = "reply"
    /\ UNCHANGED <<client, inbox>>
    /\ WithLock(c, FALSE)
    /\ ws \in bcast[c].pending
    /\ bcast' = [bcast EXCEPT ![c] = send_message(@, ws, open[ws])]
    /\ UNCHANGED <<rooms, clients, websocket_to_username, pc, open, username,
                   response, replies>>

\* gather has returned; the loop sends the response.  On a closed
\* connection the send raises, the send of the except clause raises again,
\* and the finally block runs
SendReply(c) ==
    /\ pc[c] = "reply"
    /\ UNCHANGED <<client, inbox>>
    /\ WithLock(c, ~open[c] /\ username[c] # None)
    /\ bcast[c].pending = {}
    /\ IF open[c]
       THEN /\ replies' = [replies EXCEPT ![c] =
                              @ \o loop_sends(after_gather(bcast[c], response[c]))]
            /\ pc' = [pc EXCEPT ![c] = "loop"]
            /\ response' = [response EXCEPT ![c] = NoResponse]
            /\ bcast' = [bcast EXCEPT ![c] = NoBcast]
            /\ UNCHANGED <<rooms, clients, websocket_to_username, open, username>>
       ELSE /\ UNCHANGED replies
            /\ Cleanup(c)

Next ==
    \/ \E c \in Conns : Close(c)
    \/ \E c \in Conns, user \in Usernames \cup {None} : Register(c, user)
    \/ \E c \in Conns : RegisterClosed(c)
    \/ \E c \in Conns : Welcome(c)
    \/ \E c \in Conns, payload \in Payloads : Recv(c, payload)
    \/ \E c \in Conns : LoopClosed(c)
    \/ \E c \in Conns : \E ws \in Conns : Deliver(c, ws)
    \/ \E c \in Conns : SendReply(c)

Spec == Init /\ [][Next]_vars

----------------------------------------------------------------------------
(* Properties of the modular server *)

Registered == DOMAIN websocket_to_username
SessionOf(ws) == clients[websocket_to_username[ws]]
WsOf(cl, members) == {cl[u].websocket : u \in members \cap DOMAIN cl}

\* C1: at most one Session exists per username and at most one username is
\* bound to each connection, whatever the handlers of the connections do
UniqueSessions ==
    /\ \A w1, w2 \in Registered :
          websocket_to_username[w1] = websocket_to_username[w2] => w1 = w2
    /\ \A u1, u2 \in DOMAIN clients :
          clients[u1].websocket = clients[u2].websocket => u1 = u2
    /\ \A u \in DOMAIN clients : clients[u].username = u

\* both usernames are held and a third connection that asked for one of
\* them has been turned away
UniqueSessionsWitness ==
    /\ Cardinality(DOMAIN clients) = 2
    /\ \E c \in Conns :
          /\ pc[c] = "done"
          /\ replies[c] = <<"Username deja utilise">>
          /\ c \notin Registered

\* C2: the current_room of every Session is an existing room whose member
\* set holds the username, no other room holds it, and every member of a
\* room has a Session whose current_room is that room
SingleRoom ==
    /\ \A u \in DOMAIN clients :
          /\ clients[u].current_room \in DOMAIN rooms
          /\ u \in rooms[clients[u].current_room]
          /\ \A r \in DOMAIN rooms \ {clients[u].current_room} : u \notin rooms[r]
    /\ \A r \in DOMAIN rooms : \A u \in rooms[r] :
          u \in DOMAIN clients /\ clients[u].current_room = r

\* one user has moved to "dev" and come back while the other stays in "dev"
SingleRoomWitness ==
    /\ "dev" \in DOMAIN rooms
    /\ \E u, v \in DOMAIN clients :
          /\ clients[u].current_room = "dev"
          /\ clients[v].current_room = "default"
          /\ pc[clients[v].websocket] = "reply"
          /\ bcast[clients[v].websocket].kind = "left"

\* C3: once the handler of a connection has ended, the connection has no
\* Session: it is in neither registry map nor, by its username, in a room
ClosedSessionRemoved ==
    \A c \in Conns : pc[c] = "done" =>
        /\ c \notin Registered
        /\ \A u \in DOMAIN clients : clients[u].websocket # c

\* C4: a broadcast is sent to exactly the websockets of the members its room
\* has when it starts, minus the excluded user; joins, leaves and closes
\* during the deliveries neither change the recipients nor turn the reply of
\* the sender into an error
SnapshotBroadcast ==
    [][\A c \in Conns :
         /\ (pc[c] = "loop" /\ bcast'[c].kind # None) =>
               /\ bcast'[c].targets =
                     WsOf(clients', Get(rooms', bcast'[c].room_name, {})
                                      \ {bcast'[c].exclude_username})
               /\ bcast'[c].pending = bcast'[c].targets
         /\ (pc[c] = "reply" /\ pc'[c] = "reply") =>
               /\ bcast'[c].targets = bcast[c].targets
               /\ bcast'[c].pending \subseteq bcast[c].pending
               /\ bcast'[c].pending \cup bcast'[c].failed \subseteq bcast[c].targets
         /\ (pc'[c] = "reply" /\ bcast'[c].kind # None) => response'[c].action = "success"
      ]_vars

\* a delivery of a broadcast has failed and a user who joined its room
\* after the snapshot is not among its recipients
SnapshotBroadcastWitness ==
    \E c \in Conns :
        /\ bcast[c].kind # None
        /\ bcast[c].failed # {}
        /\ response[c].action = "success"
        /\ \E u \in rooms[bcast[c].room_name] \ {bcast[c].exclude_username} :
              clients[u].websocket \notin bcast[c].targets

\* C5: the broadcast of a chat message is not sent to the connection of its
\* sender
SenderExcluded ==
    \A c \in Conns : bcast[c].kind = "chat" => c \notin bcast[c].targets

\* C6: a chat message carries the name of the room its sender is in when
\* the broadcast is issued and goes only to Sessions that are in that room
\* at that moment
ChatStaysInRoom ==
    [][\A c \in Conns :
         (pc[c] = "loop" /\ bcast'[c].kind = "chat") =>
            /\ c \in Registered'
            /\ bcast'[c].username = websocket_to_username'[c]
            /\ bcast'[c].room_name = SessionOf(c)'.current_room
            /\ \A w \in Registered' :
                  SessionOf(w)'.current_room # bcast'[c].room_name
                     => w \notin bcast'[c].targets
            /\ bcast'[c].targets \subseteq Registered'
      ]_vars

\* a chat message is on its way in "dev" while another Session is in
\* "default" and is not a recipient
ChatStaysInRoomWitness ==
    \E c \in Conns :
        /\ bcast[c].kind = "chat"
        /\ bcast[c].room_name = "dev"
        /\ bcast[c].pending = bcast[c].targets
        /\ \E w \in Registered \ bcast[c].targets :
              SessionOf(w).current_room = "default" /\ open[w]

DepartureOnClose ==
    [][\A c \in Registered :
         c \notin Registered' =>
            \A v \in rooms[SessionOf(c).current_room] \ {websocket_to_username[c]} :
               \E d \in Conns :
                  /\ bcast'[d].kind = "left"
                  /\ bcast'[d].username = websocket_to_username[c]
                  /\ clients[v].websocket \in bcast'[d].targets
      ]_vars

\* C9: when the handler is done with a broadcast, every recipient whose
\* delivery failed has been unregistered
FailedRecipientsDisconnected ==
    [][\A c \in Conns :
         (pc[c] = "reply" /\ pc'[c] # "reply") =>
            \A w \in bcast[c].failed :
               /\ w \notin Registered'
               /\ \A u \in DOMAIN clients' : clients'[u].websocket # w
      ]_vars

\* C10: the step in which join_room moves a user from room A to another
\* room issues a departure notice for the user to every other member of A
DepartureOnJoin ==
    [][\A c \in Registered :
         (pc[c] = "loop" /\ bcast'[c].kind = "joined"
            /\ SessionOf(c).current_room # bcast'[c].room_name) =>
            \A v \in rooms[SessionOf(c).current_room] \ {websocket_to_username[c]} :
               \E d \in Conns :
                  /\ bcast'[d].kind = "left"
                  /\ bcast'[d].username = websocket_to_username[c]
                  /\ clients[v].websocket \in bcast'[d].targets
      ]_vars

\* C11: a join_room request that succeeds issues an arrival notice to the
\* websocket of every member of the target room but the joining user, whose
\* own connection is not a recipient
ArrivalNotice ==
    [][\A c \in Conns :
         (pc[c] = "loop" /\ pc'[c] = "reply" /\ response'[c].action = "success") =>
            \A p \in {q \in Payloads : q.wellformed /\ q.action = "join_room"} :
               Recv(c, p) =>
                  /\ bcast'[c].kind = "joined"
                  /\ bcast'[c].username = websocket_to_username[c]
                  /\ bcast'[c].room_name = p.room_name
                  /\ \A v \in rooms'[p.room_name] \ {websocket_to_username[c]} :
                        clients'[v].websocket \in bcast'[c].pending
                  /\ c \notin bcast'[c].targets
      ]_vars

\* an arrival notice is on its way to the member the joining user found in
\* the room
ArrivalNoticeWitness ==
    \E c \in Registered :
        /\ bcast[c].kind = "joined"
        /\ bcast[c].pending # {}
        /\ c \notin bcast[c].targets
        /\ SessionOf(c).current_room = bcast[c].room_name

\* C12: the add_client call of a registration returns False exactly when the
\* username has a Session; then the three maps are unchanged; otherwise a
\* new Session for the username is bound to the websocket and the other
\* Sessions are unchanged
AddClientContract ==
    [][\A c \in Conns : \A u \in Usernames :
         Register(c, u) =>
            /\ add_client(State, c, u).ret = (u \notin DOMAIN clients)
            /\ u \in DOMAIN clients =>
                  /\ State' = State
                  /\ c \notin Registered'
            /\ u \notin DOMAIN clients =>
                  /\ clients'[u] = [websocket |-> c, username |-> u,
                                    current_room |-> "default"]
                  /\ websocket_to_username'[c] = u
                  /\ \A v \in DOMAIN clients : clients'[v] = clients[v]
                  /\ \A w \in Registered :
                        websocket_to_username'[w] = websocket_to_username[w]
      ]_vars

\* a connection has been refused a taken username while the holder of the
\* name keeps its connection and its room "dev"
AddClientContractWitness ==
    \E c \in Conns : \E u \in DOMAIN clients :
        /\ replies[c] = <<"Username deja utilise">>
        /\ clients[u].websocket # c
        /\ pc[clients[u].websocket] = "loop"
        /\ clients[u].current_room = "dev"
        /\ u \in rooms["dev"]

\* C13: a Session that has just been registered (its handler has not yet
\* sent the welcome reply) is in both maps, its current_room is the default
\* room and the default room holds its username; no websocket is bound to a
\* username without a Session
AtomicRegistration ==
    /\ \A c \in Conns : pc[c] = "welcome" =>
          /\ c \in Registered
          /\ websocket_to_username[c] \in DOMAIN clients
          /\ SessionOf(c).websocket = c
          /\ SessionOf(c).current_room = "default"
          /\ websocket_to_username[c] \in rooms["default"]
    /\ \A w \in Registered : websocket_to_username[w] \in DOMAIN clients

\* a Session has just been registered while another handler is in the
\* middle of a request
AtomicRegistrationWitness ==
    \E c, d \in Conns :
        /\ pc[c] = "welcome"
        /\ open[c]
        /\ pc[d] = "reply"
        /\ bcast[d].pending # {}

\* C14: a connection that was refused in the handshake is in neither map,
\* is listed in no room, is counted by no room and is the recipient of no
\* broadcast
RefusedNotRegistered ==
    \A c \in Conns :
        replies[c] \in {<<"Username manquant">>, <<"Username deja utilise">>} =>
            /\ c \notin Registered
            /\ \A u \in DOMAIN clients : clients[u].websocket # c
            /\ \A d \in Conns : c \notin bcast[d].targets
            /\ \A r \in DOMAIN rooms :
                  /\ \A u \in get_room_clients(State, r) :
                        u \in DOMAIN clients /\ clients[u].websocket # c
                  /\ list_rooms(State)[r] =
                        Cardinality({w \in Registered \ {c} :
                                        SessionOf(w).current_room = r})

\* one connection was refused for a missing username, another for a taken
\* one, and a broadcast is on its way
RefusedNotRegisteredWitness ==
    /\ \E c \in Conns : replies[c] = <<"Username manquant">>
    /\ \E c \in Conns : replies[c] = <<"Username deja utilise">>
    /\ \E d \in Conns : bcast[d].pending # {}

\* C15: a send of a broadcast that ends, with or without an error, takes
\* its own recipient off the pending sends and no other; a failed send
\* changes neither ServerState nor the position of any handler
IndependentDeliveries ==
    [][\A c \in Conns :
         (pc[c] = "reply" /\ pc'[c] = "reply" /\ bcast'[c] # bcast[c]) =>
            /\ \E w \in bcast[c].pending :
                  /\ bcast'[c].pending = bcast[c].pending \ {w}
                  /\ bcast'[c].failed \in {bcast[c].failed, bcast[c].failed \cup {w}}
            /\ State' = State
            /\ pc' = pc
      ]_vars

\* one send of a broadcast has failed and another one has been delivered
IndependentDeliveriesWitness ==
    \E c \in Conns :
        /\ bcast[c].failed # {}
        /\ bcast[c].targets \ (bcast[c].failed \cup bcast[c].pending) # {}

\* C16: the reply to a request whose broadcast had failed deliveries is the
\* success reply
FailureNotSurfaced ==
    [][\A c \in Conns :
         (pc[c] = "reply" /\ bcast[c].failed # {} /\ pc'[c] = "loop") =>
            replies'[c] = <<"success">>
      ]_vars

\* all sends of a broadcast are over, one of them failed, and the requester
\* is about to be sent its reply
FailureNotSurfacedWitness ==
    \E c \in Conns :
        /\ pc[c] = "reply"
        /\ open[c]
        /\ bcast[c].pending = {}
        /\ bcast[c].failed # {}
        /\ c \notin bcast[c].failed

\* C17: handle_message answers every message of a connection without a
\* Session with an error and leaves ServerState as it is
NoSessionNoHandler ==
    \A ws \in Conns \ Registered : \A p \in Payloads :
        LET r == handle_message(State, ws, from_json(p)) IN
        /\ r.response.action = "error"
        /\ r.state = State

\* the requests C18 is about, in the current state
Invalid(p) ==
    /\ p.wellformed /\ p.isdict
    /\ \/ p.action = "create_room" /\ p.room_name \in {None} \cup DOMAIN rooms
       \/ p.action = "join_room" /\ p.room_name \in {None} \cup (RoomNames \ DOMAIN rooms)
       \/ p.action = "send_message" /\ p.message = None
       \/ p.action = "ping"

\* C18: a request that fails validation gets an error response, changes
\* none of the three maps, starts no broadcast and leaves its connection
\* registered and in its receive loop
ValidationFailureNoEffect ==
    [][\A c \in Conns :
         (pc[c] = "loop" /\ pc'[c] # "loop") =>
            \A p \in {q \in Payloads : Invalid(q)} :
               Recv(c, p) =>
                  /\ response'[c].action = "error"
                  /\ State' = State
                  /\ bcast'[c] = NoBcast
                  /\ c \in Registered'
                  /\ pc'[c] = "reply"
      ]_vars

\* create_room for the existing room "dev", which has a member, is about
\* to be answered
ValidationFailureNoEffectWitness ==
    \E c \in Registered :
        /\ pc[c] = "reply"
        /\ response[c] = create_error("Le salon existe deja")
        /\ "dev" \in DOMAIN rooms
        /\ rooms["dev"] # {}

Raises(c, p) ==
    /\ p.wellformed
    /\ \/ ~p.isdict /\ p.action \in {"create_room", "join_room", "send_message",
                                     "list_users"}
       \/ p.room_name = Unhashable /\ p.action \in {"create_room", "list_users"}
       \/ p.room_name = Unhashable /\ p.action = "join_room" /\ c \in Registered

\* C20: an exception of a handler becomes the error response of
\* handle_message; the connection stays registered and goes back to its
\* receive loop, and no other connection is affected
HandlerExceptionCaught ==
    [][\A c \in Conns :
         /\ (pc[c] = "loop" /\ pc'[c] # "loop") =>
               \A p \in {q \in Payloads : Raises(c, q)} :
                  Recv(c, p) =>
                     /\ response'[c] = create_error("Erreur interne")
                     /\ State' = State
                     /\ pc'[c] = "reply"
                     /\ \A d \in Conns \ {c} :
                           /\ pc'[d] = pc[d]
                           /\ response'[d] = response[d]
                           /\ bcast'[d] = bcast[d]
                           /\ replies'[d] = replies[d]
         /\ (pc[c] = "reply" /\ response[c] = create_error("Erreur interne")
               /\ open[c] /\ pc'[c] # "reply") =>
               /\ pc'[c] = "loop"
               /\ replies'[c] = <<"error">>
               /\ c \in Registered'
               /\ State' = State
      ]_vars

\* a handler has raised in one connection while another connection is in
\* its receive loop
HandlerExceptionCaughtWitness ==
    \E c, d \in Registered :
        /\ c # d
        /\ pc[c] = "reply"
        /\ response[c] = create_error("Erreur interne")
        /\ pc[d] = "loop"
        /\ open[d]

----------------------------------------------------------------------------
(* Contracts of the room operations of ServerState *)

\* the join_room requests that reach ServerState.join_room
JoinRequests ==
    {p \in Payloads : p.wellformed /\ p.isdict /\ p.action = "join_room"
                      /\ p.room_name \in RoomNames}

\* what the call join_room(user, room_name) in state s has to give: r.ret is
\* the value returned, r.state the state after the call
JoinRoomPost(s, user, room_name, r) ==
    IF user \notin DOMAIN s.clients \/ room_name \notin DOMAIN s.rooms
    THEN /\ r.ret = FALSE
         /\ r.state = s
    ELSE /\ r.ret = TRUE
         /\ DOMAIN r.state.rooms = DOMAIN s.rooms
         /\ DOMAIN r.state.clients = DOMAIN s.clients
         /\ r.state.websocket_to_username = s.websocket_to_username
         /\ user \in r.state.rooms[room_name]
         /\ \A x \in DOMAIN s.rooms \ {room_name} : user \notin r.state.rooms[x]
         /\ r.state.clients[user] =
               [s.clients[user] EXCEPT !.current_room = room_name]
         /\ \A v \in DOMAIN s.clients \ {user} :
               /\ r.state.clients[v] = s.clients[v]
               /\ \A x \in DOMAIN s.rooms :
                     (v \in r.state.rooms[x]) = (v \in s.rooms[x])

\* every call of join_room that can be made in state s keeps the contract
JoinRoomCalls(s) ==
    \A u \in Usernames : \A R \in RoomNames :
        JoinRoomPost(s, u, R, join_room(s, u, R))

\* C21: join_room(u, R) returns False and leaves the state as it is when u
\* has no Session or R does not exist; otherwise it returns True, u is a
\* member of R and of no other room, its current_room is R and the rooms
\* and Sessions of the other users are as before.  This holds of every call
\* in every state the server reaches, and of the calls join_room requests
\* make
JoinRoomContract ==
    /\ []JoinRoomCalls(State)
    /\ [][\A c \in Conns :
            (pc[c] = "loop" /\ c \in Registered /\ pc'[c] = "reply") =>
               \A p \in JoinRequests :
                  Recv(c, p) =>
                     JoinRoomPost(State, websocket_to_username[c], p.room_name,
                                  [ret |-> response'[c].action = "success",
                                   state |-> State'])
         ]_vars

\* one user has moved to "dev", which another user asked for in vain before
\* the room was created
JoinRoomContractWitness ==
    \E c, d \in Registered :
        /\ pc[c] = "reply"
        /\ response[c] = create_success("Vous avez rejoint le salon",
                                        [room_name |-> "dev"])
        /\ SessionOf(c).current_room = "dev"
        /\ websocket_to_username[c] \in rooms["dev"] \ rooms["default"]
        /\ pc[d] = "reply"
        /\ response[d] = create_error("Impossible de rejoindre")
        /\ SessionOf(d).current_room = "default"

\* joining the room the user is in, once and once more, in state s
RejoinCalls(s) ==
    \A u \in DOMAIN s.clients :
        LET R == s.clients[u].current_room
            once == join_room(s, u, R)
            twice == join_room(once.state, u, R) IN
        /\ once = [ret |-> TRUE, state |-> s]
        /\ twice = once

\* C22: join_room(u, R) with R the current room of u returns True and
\* changes neither the set of rooms nor a member set nor a Session, the
\* first time and every time after it
JoinCurrentRoomNoOp ==
    /\ []RejoinCalls(State)
    /\ [][\A c \in Conns :
            (pc[c] = "loop" /\ c \in Registered /\ pc'[c] = "reply") =>
               \A p \in JoinRequests :
                  (p.room_name = SessionOf(c).current_room /\ Recv(c, p)) =>
                     /\ response'[c].action = "success"
                     /\ State' = State
         ]_vars

\* a user has joined the default room while no other room had ever been
\* created, and is not alone in it
JoinCurrentRoomNoOpWitness ==
    \E c \in Registered :
        /\ pc[c] = "reply"
        /\ response[c] = create_success("Vous avez rejoint le salon",
                                        [room_name |-> "default"])
        /\ DOMAIN rooms = {"default"}
        /\ Cardinality(rooms["default"]) > 1

\* the leave_room requests: handle_leave_room does not read their data
LeaveRequests == {p \in Payloads : p.wellformed /\ p.action = "leave_room"}

\* leaving the default room, once and once more, in state s
LeaveDefaultCalls(s) ==
    \A u \in DOMAIN s.clients :
        s.clients[u].current_room = "default" =>
            LET once == leave_room(s, u)
                twice == leave_room(once.state, u) IN
            /\ once = [ret |-> None, state |-> s]
            /\ twice = once

\* C23: leave_room for a user whose current room is the default room
\* returns None, the first time and every time after it; the request gets
\* the error reply, clients, websocket_to_username and the member sets stay
\* as they are and no notice is sent
LeaveDefaultNoOp ==
    /\ []LeaveDefaultCalls(State)
    /\ [][\A c \in Conns :
            (pc[c] = "loop" /\ c \in Registered /\ pc'[c] = "reply") =>
               \A p \in LeaveRequests :
                  (SessionOf(c).current_room = "default" /\ Recv(c, p)) =>
                     /\ response'[c] =
                           create_error("Vous etes deja dans le salon par defaut")
                     /\ State' = State
                     /\ bcast'[c] = NoBcast
         ]_vars

\* a user who shares the default room with another user has asked to leave
\* it
LeaveDefaultNoOpWitness ==
    \E c \in Registered :
        /\ pc[c] = "reply"
        /\ response[c] = create_error("Vous etes deja dans le salon par defaut")
        /\ bcast[c] = NoBcast
        /\ SessionOf(c).current_room = "default"
        /\ Cardinality(rooms["default"]) > 1

\* leave_room against join_room(user, "default") in state s
LeaveAsJoinCalls(s) ==
    \A u \in DOMAIN s.clients :
        s.clients[u].current_room # "default" =>
            LET joined == join_room(s, u, "default") IN
            /\ joined.ret = TRUE
            /\ leave_room(s, u) = [ret |-> s.clients[u].current_room,
                                   state |-> joined.state]

\* C24: for a registered user whose current room X is not the default room,
\* leave_room returns X and gives the state join_room(user, "default")
\* gives from the same state
LeaveRoomIsJoinDefault ==
    /\ []LeaveAsJoinCalls(State)
    /\ [][\A c \in Conns :
            (pc[c] = "loop" /\ c \in Registered /\ pc'[c] = "reply") =>
               \A p \in LeaveRequests :
                  (SessionOf(c).current_room # "default" /\ Recv(c, p)) =>
                     /\ State' = join_room(State, websocket_to_username[c],
                                           "default").state
                     /\ bcast'[c].room_name = SessionOf(c).current_room
         ]_vars

\* a user has left "dev", which is now empty, for the default room, where
\* another user is
LeaveRoomIsJoinDefaultWitness ==
    \E c \in Registered :
        /\ pc[c] = "reply"
        /\ response[c].text = "Vous avez quitte le salon"
        /\ bcast[c].room_name = "dev"
        /\ rooms["dev"] = {}
        /\ SessionOf(c).current_room = "default"
        /\ Cardinality(rooms["default"]) > 1

\* C25: a leave_room request of a user in a room X other than the default
\* room moves the user to the default room, issues a departure notice to
\* the websocket of every member that remains in X, and is answered with
\* success carrying X as the old and the default room as the new room
LeaveRoomRequest ==
    [][\A c \in Conns :
         /\ (pc[c] = "loop" /\ c \in Registered /\ pc'[c] = "reply") =>
               \A p \in LeaveRequests :
                  (SessionOf(c).current_room # "default" /\ Recv(c, p)) =>
                     LET u == websocket_to_username[c]
                         X == SessionOf(c).current_room IN
                     /\ clients'[u].current_room = "default"
                     /\ u \in rooms'["default"]
                     /\ rooms'[X] = rooms[X] \ {u}
                     /\ bcast'[c].kind = "left"
                     /\ bcast'[c].room_name = X
                     /\ bcast'[c].username = u
                     /\ bcast'[c].pending = WsOf(clients, rooms[X] \ {u})
                     /\ response'[c] =
                           create_success("Vous avez quitte le salon",
                                          [old_room |-> X, new_room |-> "default"])
         /\ (pc[c] = "reply" /\ response[c].text = "Vous avez quitte le salon"
               /\ open[c] /\ pc'[c] # "reply") =>
               /\ pc'[c] = "loop"
               /\ replies'[c] = <<"success">>
      ]_vars

\* a user has left "dev" for the default room and the notice to the member
\* that stays in "dev" is on its way
LeaveRoomRequestWitness ==
    \E c \in Registered :
        /\ pc[c] = "reply"
        /\ response[c] = create_success("Vous avez quitte le salon",
                                        [old_room |-> "dev", new_room |-> "default"])
        /\ bcast[c].kind = "left"
        /\ bcast[c].pending # {}
        /\ bcast[c].pending = WsOf(clients, rooms["dev"])
        /\ SessionOf(c).current_room = "default"

\* the create_room requests that reach ServerState.create_room
CreateRequests ==
    {p \in Payloads : p.wellformed /\ p.isdict /\ p.action = "create_room"
                      /\ p.room_name \in RoomNames}

\* what the call create_room(room_name) in state s has to give
CreateRoomPost(s, room_name, r) ==
    IF room_name \in DOMAIN s.rooms
    THEN /\ r.ret = FALSE
         /\ r.state.rooms = s.rooms
    ELSE /\ r.ret = TRUE
         /\ DOMAIN r.state.rooms = DOMAIN s.rooms \cup {room_name}
         /\ r.state.rooms[room_name] = {}
         /\ \A x \in DOMAIN s.rooms : r.state.rooms[x] = s.rooms[x]
         /\ r.state.clients = s.clients
         /\ r.state.websocket_to_username = s.websocket_to_username

CreateRoomCalls(s) ==
    \A name \in RoomNames : CreateRoomPost(s, name, create_room(s, name))

\* C26: create_room(name) returns False and leaves the set of rooms and the
\* member sets as they are when the room exists, whose members stay; for a
\* new name it adds a room without members, changes no Session and returns
\* True
CreateRoomContract ==
    /\ []CreateRoomCalls(State)
    /\ [][\A c \in Conns :
            (pc[c] = "loop" /\ pc'[c] = "reply") =>
               \A p \in CreateRequests :
                  Recv(c, p) =>
                     CreateRoomPost(State, p.room_name,
                                    [ret |-> response'[c].action = "success",
                                     state |-> State'])
         ]_vars

\* a member of "dev" has asked to create "dev" again and is still in it,
\* while another user is in the default room
CreateRoomContractWitness ==
    \E c \in Registered :
        /\ pc[c] = "reply"
        /\ response[c] = create_error("Le salon existe deja")
        /\ SessionOf(c).current_room = "dev"
        /\ websocket_to_username[c] \in rooms["dev"]
        /\ rooms["default"] # {}

\* what the call remove_client(ws) in state s has to give
RemoveClientPost(s, ws, r) ==
    IF ws \notin DOMAIN s.websocket_to_username
    THEN /\ r.ret = None
         /\ r.state = s
    ELSE LET user == s.websocket_to_username[ws] IN
         /\ r.ret = user
         /\ user \notin DOMAIN r.state.clients
         /\ ws \notin DOMAIN r.state.websocket_to_username
         /\ DOMAIN r.state.rooms = DOMAIN s.rooms
         /\ \A x \in DOMAIN s.rooms : r.state.rooms[x] = s.rooms[x] \ {user}
         /\ user \notin r.state.rooms[s.clients[user].current_room]
         /\ \A v \in DOMAIN s.clients \ {user} :
               v \in DOMAIN r.state.clients /\ r.state.clients[v] = s.clients[v]

\* every call of remove_client that can be made in state s keeps the
\* contract, and a second call for the same websocket returns None
RemoveClientCalls(s) ==
    \A ws \in Conns :
        LET once == remove_client(s, ws)
            twice == remove_client(once.state, ws) IN
        /\ RemoveClientPost(s, ws, once)
        /\ twice = [ret |-> None, state |-> once.state]

\* C27: remove_client(ws) returns the username of the Session bound to ws
\* and takes it out of clients, of websocket_to_username and of the room it
\* is in; for a websocket that was never registered, or is not registered
\* any more, it returns None and changes nothing.  This holds of every
\* call in every state the server reaches, and of the call the finally
\* block of a registered connection makes
RemoveClientContract ==
    /\ []RemoveClientCalls(State)
    /\ [][\A c \in Conns :
            (pc[c] \in {"loop", "reply"} /\ pc'[c] = "done") =>
               /\ username[c] = websocket_to_username[c]
               /\ RemoveClientPost(State, c, [ret |-> username[c],
                                              state |-> State'])
         ]_vars

\* a connection that was a recipient of a broadcast has been unregistered
\* since, and another connection was refused in the handshake
RemoveClientContractWitness ==
    \E c, d, e \in Conns :
        /\ pc[c] = "done"
        /\ c \notin Registered
        /\ pc[d] = "reply"
        /\ c \in bcast[d].targets
        /\ replies[e] = <<"Username manquant">>

\* the list_rooms request
ListRoomsRequest == Frame(TRUE, "list_rooms", None, None)

\* C28: a step of the server removes no room; the default room is in the
\* rooms map from the start and, as every room there is, in the result of
\* list_rooms and in the reply to a list_rooms request, with or without
\* members
RoomsPersist ==
    /\ []("default" \in DOMAIN rooms /\ DOMAIN list_rooms(State) = DOMAIN rooms)
    /\ [][/\ DOMAIN rooms \subseteq DOMAIN rooms'
          /\ \A c \in Conns :
                (pc[c] = "loop" /\ Recv(c, ListRoomsRequest)) =>
                   /\ response'[c].text = "Liste des salons"
                   /\ DOMAIN response'[c].data.rooms = DOMAIN rooms
                   /\ "default" \in DOMAIN response'[c].data.rooms
         ]_vars

\* the reply to a list_rooms request is about to report the default room
\* and "dev", the default room without members
RoomsPersistWitness ==
    \E c \in Registered :
        /\ pc[c] = "reply"
        /\ response[c].text = "Liste des salons"
        /\ DOMAIN response[c].data.rooms = {"default", "dev"}
        /\ response[c].data.rooms["default"] = 0
        /\ rooms["default"] = {}

\* list_rooms after create_room(x) in state s, for the names x without a
\* room
CreateThenListCalls(s) ==
    \A x \in RoomNames \ DOMAIN s.rooms :
        LET r == create_room(s, x)
            before == list_rooms(s)
            after == list_rooms(r.state) IN
        /\ r.ret = TRUE
        /\ DOMAIN after = DOMAIN before \cup {x}
        /\ after[x] = 0
        /\ \A y \in DOMAIN before : after[y] = before[y]

\* C29: after a create_room(x) that succeeds, list_rooms reports x with
\* the count 0 and every room there was, the default room among them, with
\* the count it had
CreateThenList ==
    /\ []CreateThenListCalls(State)
    /\ [][\A c \in Conns :
            (pc[c] = "loop" /\ pc'[c] = "reply") =>
               \A p \in CreateRequests :
                  (p.room_name \notin DOMAIN rooms /\ Recv(c, p)) =>
                     /\ response'[c].action = "success"
                     /\ DOMAIN list_rooms(State') = DOMAIN rooms \cup {p.room_name}
                     /\ list_rooms(State')[p.room_name] = 0
                     /\ list_rooms(State')["default"] = list_rooms(State)["default"]
                     /\ \A y \in DOMAIN rooms :
                           list_rooms(State')[y] = list_rooms(State)[y]
         ]_vars

\* "dev" has just been created while two users are in the default room
CreateThenListWitness ==
    \E c \in Registered :
        /\ pc[c] = "reply"
        /\ response[c] = create_success("Salon cree", [room_name |-> "dev"])
        /\ list_rooms(State) = [r \in {"default", "dev"} |->
                                   IF r = "dev" THEN 0 ELSE 2]

\* the list_users request for the default room
ListUsersRequest == Frame(TRUE, "list_users", None, None)

\* the sum of the counts of a list_rooms result
RECURSIVE SumCounts(_)
SumCounts(counts) ==
    IF DOMAIN counts = {}
    THEN 0
    ELSE LET r == CHOOSE x \in DOMAIN counts : TRUE IN
         counts[r] + SumCounts(Del(counts, r))

\* the results list_rooms and get_room_clients give when called in state s:
\* the counts add up to the number of Sessions and the members of a room
\* are the users whose Session names it
ConsistentReads(s) ==
    /\ SumCounts(list_rooms(s)) = Cardinality(DOMAIN s.clients)
    /\ \A r \in DOMAIN s.rooms :
          get_room_clients(s, r) =
             {u \in DOMAIN s.clients : s.clients[u].current_room = r}

\* C30: whenever list_rooms or get_room_clients is called, while other
\* connections register, join, leave and unregister, the result is that of
\* one state of ServerState: the counts of list_rooms add up to the number
\* of Sessions of that state, a room lists the users whose Session names
\* it, and the result a handler holds is not changed by the steps other
\* handlers take before it is sent
SnapshotReads ==
    /\ []ConsistentReads(State)
    /\ [][\A c \in Conns :
            /\ (pc[c] = "loop" /\ Recv(c, ListRoomsRequest)) =>
                  /\ response'[c].data.rooms = list_rooms(State)
                  /\ SumCounts(response'[c].data.rooms) = Cardinality(DOMAIN clients)
            /\ (pc[c] = "loop" /\ Recv(c, ListUsersRequest)) =>
                  response'[c].data.users =
                     {u \in DOMAIN clients : clients[u].current_room = "default"}
            /\ (pc[c] = "reply" /\ pc'[c] = "reply") => response'[c] = response[c]
         ]_vars

\* a handler holds a list_rooms result that counts both Sessions, and a
\* user has changed room since the result was taken
SnapshotReadsWitness ==
    \E c \in Registered :
        /\ pc[c] = "reply"
        /\ response[c].text = "Liste des salons"
        /\ SumCounts(response[c].data.rooms) = 2
        /\ DOMAIN response[c].data.rooms = DOMAIN rooms
        /\ response[c].data.rooms # list_rooms(State)
        /\ Cardinality(DOMAIN clients) = 2

----------------------------------------------------------------------------
(* Unregistration and the life of a connection *)

\* the connections whose handler has ended and that have no Session: those
\* remove_client has unregistered and those that were never registered
Unregistered == {c \in Conns \ Registered : pc[c] = "done"}

\* C31: once remove_client has unregistered a connection, a broadcast whose
\* snapshot is taken later has no send to its websocket, and a later
\* list_users or list_rooms result reports Sessions of other websockets
\* only: the username appears again only as the Session of a connection
\* that registered it anew
RemovedNotServed ==
    /\ [](\A c \in Unregistered : \A r \in DOMAIN rooms :
             c \notin broadcast_to_room(State, r, "chat", None, None).targets)
    /\ [][\A d \in Conns :
            (pc[d] = "loop" /\ pc'[d] = "reply") =>
               \A c \in Unregistered :
                  /\ c \notin bcast'[d].targets
                  /\ Recv(d, ListUsersRequest) =>
                        \A u \in response'[d].data.users :
                           u \in DOMAIN clients /\ clients[u].websocket # c
                  /\ Recv(d, ListRoomsRequest) =>
                        \A r \in DOMAIN rooms :
                           response'[d].data.rooms[r] =
                              Cardinality({u \in DOMAIN clients :
                                              /\ clients[u].websocket # c
                                              /\ clients[u].current_room = r})
         ]_vars

\* a connection that was a recipient of a broadcast still in flight has
\* been unregistered; a connection that registered after it has started a
\* broadcast of its own, which has recipients and leaves it out
RemovedNotServedWitness ==
    \E c \in Unregistered : \E d, e \in Registered :
        /\ pc[e] = "reply"
        /\ c \in bcast[e].targets
        /\ d \notin bcast[e].targets
        /\ pc[d] = "reply"
        /\ bcast[d].kind = "chat"
        /\ bcast[d].targets # {}
        /\ c \notin bcast[d].targets

\* C32: a connection is registered from Connecting only and never returns
\* to Connecting; its Session is not removed while it is open and in its
\* receive loop, whatever room it moves to; a handler that has ended stays
\* ended and its connection holds no Session
ConnectionLifecycle ==
    [][\A c \in Conns :
         /\ (c \notin Registered /\ c \in Registered') => pc[c] = "connecting"
         /\ pc'[c] = "connecting" => pc[c] = "connecting"
         /\ (c \in Registered /\ open[c] /\ pc[c] \in {"loop", "reply"}) =>
               c \in Registered'
         /\ pc[c] = "done" => pc'[c] = "done"
         /\ pc'[c] = "done" =>
               /\ c \notin Registered'
               /\ \A u \in DOMAIN clients' : clients'[u].websocket # c
      ]_vars

\* C38: websocket_to_username[ws] = u exactly when clients[u] exists and
\* its websocket is ws; the two maps have the same number of entries
InverseMaps ==
    /\ \A ws \in Conns : \A u \in Usernames :
          (ws \in Registered /\ websocket_to_username[ws] = u)
             <=> (u \in DOMAIN clients /\ clients[u].websocket = ws)
    /\ \A ws \in Registered : websocket_to_username[ws] \in Usernames
    /\ DOMAIN clients \subseteq Usernames
    /\ Cardinality(Registered) = Cardinality(DOMAIN clients)

\* two Sessions are registered, in different rooms, after a third
\* connection has been unregistered
InverseMapsWitness ==
    /\ Cardinality(Registered) = 2
    /\ \E c, d \in Registered :
          SessionOf(c).current_room # SessionOf(d).current_room
    /\ \E c, e \in Conns : c \in Unregistered /\ c \in bcast[e].targets

\* the Session, the binding and the room of every connection but ws are
\* in state t what they are in state s
OthersKept(s, t, ws) ==
    \A w \in DOMAIN s.websocket_to_username \ {ws} :
        LET u == s.websocket_to_username[w] IN
        /\ w \in DOMAIN t.websocket_to_username
        /\ t.websocket_to_username[w] = u
        /\ u \in DOMAIN t.clients
        /\ t.clients[u] = s.clients[u]
        /\ \A r \in DOMAIN s.rooms :
              r \in DOMAIN t.rooms /\ ((u \in t.rooms[r]) = (u \in s.rooms[r]))

\* C39: remove_client(ws), for every websocket and in every state the
\* server reaches, and every step in which the handler of a connection
\* ends, leave the Session, the websocket_to_username entry and the room
\* membership of every other connection as they are; so it is for a
\* connection refused for a taken username and for one whose username has
\* been registered again
TeardownFrame ==
    /\ [](\A ws \in Conns : OthersKept(State, remove_client(State, ws).state, ws))
    /\ [][\A c \in Conns :
            (pc[c] # "done" /\ pc'[c] = "done") => OthersKept(State, State', c)
         ]_vars

\* a connection was refused a taken username and another, a recipient of a
\* broadcast still in flight, has been unregistered, while the sender of the
\* broadcast has its Session and its room
TeardownFrameWitness ==
    \E c, d \in Conns : \E e \in Registered :
        /\ replies[c] = <<"Username deja utilise">>
        /\ d \in Unregistered
        /\ pc[e] = "reply"
        /\ d \in bcast[e].targets
        /\ SessionOf(e).current_room = bcast[e].room_name
        /\ websocket_to_username[e] \in rooms[bcast[e].room_name]

----------------------------------------------------------------------------
(* servermin.py: the minimal server.  Its module globals `rooms` (room ->
   set of websockets) and `clients` (websocket -> username and room) take
   the variables rooms and clients; pc, open and bcast are the position of
   each handler, the state of its connection and the broadcast it runs.
   The variables this server has no use for keep their initial value.  The
   handlers share one event loop: a step is the code between two awaits
   that can suspend, and a send to the handler's own open connection is
   taken together with the code that follows it. *)

\* the connections the minimal server and the single-file server are run with
NumPeers == 2
Peers == 1..NumPeers

MinRoomNames == {"general", "dev"}

MinPayloads ==
    {Frame(TRUE, "join_room", r, None) : r \in MinRoomNames \cup {None}}
    \cup {Frame(TRUE, a, None, None) : a \in {"leave_room", "list_rooms"}}
    \cup {Frame(TRUE, "send_message", None, "hi")}
    \cup {Frame(TRUE, "create_room", "dev", None)}

\* clients[ws] = {"username": username, "room": initial_room}
MinClient(user) == [username |-> user, room |-> "general"]

\* the two globals as one value
MinState == [rooms |-> rooms, clients |-> clients]

\* no broadcast under way; otherwise `pending` holds the websockets of the
\* snapshot that have not been sent to, `next` where the handler goes on
\* after the last send and `new_room` the argument of handle_join_room
MinNoBcast == [pending |-> {}, next |-> None, new_room |-> None]

\* list(rooms[room_name]) in broadcast
min_snapshot(rms, room_name) == Get(rms, room_name, {})

\* where handler c stands after a piece of code: the two globals, its
\* position and its broadcast
MinResult(rms, cl, p, b) == [rooms |-> rms, clients |-> cl, pc |-> p, bcast |-> b]

\* the finally block of handler up to the first send of its broadcast
min_finally(s, c) ==
    IF c \in DOMAIN s.clients
    THEN LET room == s.clients[c].room
             rms == Discard(s.rooms, room, c)
             snapshot == min_snapshot(rms, room) IN
         MinResult(rms, Del(s.clients, c),
                   IF snapshot = {} THEN "done" ELSE "bcast",
                   [pending |-> snapshot, next |-> "done", new_room |-> None])
    ELSE MinResult(s.rooms, s.clients, "done", MinNoBcast)

\* handle_join_room from "Rejoindre le nouveau salon" on: the room is
\* created if need be and entered, then the success reply is sent; on a
\* closed connection the send raises and the handler ends
min_join_finish(s, c, new_room_name, isopen) ==
    LET rms == Put(s.rooms, new_room_name,
                   Get(s.rooms, new_room_name, {}) \cup {c})
        cl == [s.clients EXCEPT ![c].room = new_room_name] IN
    IF isopen
    THEN MinResult(rms, cl, "bcast",
                   [pending |-> min_snapshot(rms, new_room_name),
                    next |-> "loop", new_room |-> None])
    ELSE min_finally([rooms |-> rms, clients |-> cl], c)

\* handle_join_room up to the first send of the broadcast to the old room;
\* when nobody is left in the old room it goes on without a suspension
min_handle_join_room(s, c, new_room_name) ==
    IF c \notin DOMAIN s.clients \/ s.clients[c].room = new_room_name
    THEN MinResult(s.rooms, s.clients, "loop", MinNoBcast)
    ELSE LET old_room_name == s.clients[c].room
             rms == Discard(s.rooms, old_room_name, c)
             snapshot == min_snapshot(rms, old_room_name) IN
         IF snapshot = {}
         THEN min_join_finish([s EXCEPT !.rooms = rms], c, new_room_name, TRUE)
         ELSE MinResult(rms, s.clients, "bcast",
                        [pending |-> snapshot, next |-> "join",
                         new_room |-> new_room_name])

\* one message of the receive loop of handler
min_dispatch(s, c, payload) ==
    CASE payload.action = "send_message" ->
            MinResult(s.rooms, s.clients, "bcast",
                      [pending |-> min_snapshot(s.rooms, s.clients[c].room),
                       next |-> "loop", new_room |-> None])
      [] payload.action = "join_room" /\ payload.room_name # None ->
            min_handle_join_room(s, c, payload.room_name)
      [] payload.action = "leave_room" ->
            min_handle_join_room(s, c, "general")
      [] payload.action = "create_room" /\ payload.room_name # None
            /\ payload.room_name \notin DOMAIN s.rooms ->
            MinResult(Put(s.rooms, payload.room_name, {}), s.clients, "loop",
                      MinNoBcast)
      [] OTHER -> MinResult(s.rooms, s.clients, "loop", MinNoBcast)

\* handler: the registration, which does not look for the username among
\* the clients
min_register(s, c, user) ==
    MinResult([s.rooms EXCEPT !["general"] = @ \cup {c}],
              Put(s.clients, c, MinClient(user)), "welcome", MinNoBcast)

\* the module globals after import
MinInit ==
    /\ rooms = [r \in {"general"} |-> {}]
    /\ client = [c \in Conns |-> NoClient]
    /\ inbox = [c \in Conns |-> 0]
    /\ lock = NoWs
    /\ clients = [w \in {} |-> MinClient(None)]
    /\ pc = [c \in Conns |-> "connecting"]
    /\ open = [c \in Conns |-> TRUE]
    /\ bcast = [c \in Conns |-> MinNoBcast]
    /\ websocket_to_username = ServerState0.websocket_to_username
    /\ username = [c \in Conns |-> None]
    /\ response = [c \in Conns |-> NoResponse]
    /\ replies = [c \in Conns |-> <<>>]

\* handler c is where r says; a handler that has returned has its
\* connection closed
MinGoto(c, r) ==
    /\ rooms' = r.rooms
    /\ clients' = r.clients
    /\ pc' = [pc EXCEPT ![c] = r.pc]
    /\ bcast' = [bcast EXCEPT ![c] = IF r.pc = "bcast" THEN r.bcast ELSE MinNoBcast]
    /\ open' = [open EXCEPT ![c] = IF r.pc = "done" THEN FALSE ELSE @]
    /\ UNCHANGED <<websocket_to_username, username, response, replies,
                   client, inbox, lock>>

\* the first frame carries the username (None: missing, the handler
\* replies with an error, kept in response, closes and returns)
MinRegister(c, user) ==
    /\ pc[c] = "connecting"
    /\ Accepted(c)
    /\ open[c]
    /\ IF user = None
       THEN /\ response' = [response EXCEPT ![c] = create_error("Nom d'utilisateur requis.")]
            /\ pc' = [pc EXCEPT ![c] = "done"]
            /\ open' = [open EXCEPT ![c] = FALSE]
            /\ UNCHANGED <<rooms, clients, bcast, websocket_to_username, username,
                           replies, client, inbox, lock>>
       ELSE MinGoto(c, min_register(MinState, c, user))

\* ws.recv() raises on a connection closed before its first frame
MinRegisterClosed(c) ==
    /\ pc[c] = "connecting"
    /\ ~open[c]
    /\ MinGoto(c, min_finally(MinState, c))

\* the confirmation of the registration, then the broadcast of the arrival
MinWelcome(c) ==
    /\ pc[c] = "welcome"
    /\ IF open[c]
       THEN MinGoto(c, MinResult(rooms, clients, "bcast",
                                 [pending |-> min_snapshot(rooms, "general"),
                                  next |-> "loop", new_room |-> None]))
       ELSE MinGoto(c, min_finally(MinState, c))

\* the receive loop takes a frame and handles it up to its first suspension
MinRecv(c, payload) ==
    /\ pc[c] = "loop"
    /\ open[c]
    /\ MinGoto(c, min_dispatch(MinState, c, payload))

\* the receive loop ends on a closed connection
MinLoopClosed(c) ==
    /\ pc[c] = "loop"
    /\ ~open[c]
    /\ MinGoto(c, min_finally(MinState, c))

\* one send of broadcast has ended, with or without an exception; after
\* the last one the caller goes on
MinSent(c, ws) ==
    /\ pc[c] = "bcast"
    /\ ws \in bcast[c].pending
    /\ LET b == [bcast[c] EXCEPT !.pending = @ \ {ws}] IN
       IF b.pending # {}
       THEN MinGoto(c, MinResult(rooms, clients, "bcast", b))
       ELSE CASE b.next = "loop" ->
                    MinGoto(c, MinResult(rooms, clients, "loop", MinNoBcast))
              [] b.next = "join" ->
                    MinGoto(c, min_join_finish(MinState, c, b.new_room, open[c]))
              [] OTHER ->
                    MinGoto(c, MinResult(rooms, clients, "done", MinNoBcast))

MinNext ==
    \/ \E c \in Peers : Close(c)
    \/ \E c \in Peers, user \in Usernames \cup {None} : MinRegister(c, user)
    \/ \E c \in Peers : MinRegisterClosed(c)
    \/ \E c \in Peers : MinWelcome(c)
    \/ \E c \in Peers, payload \in MinPayloads : MinRecv(c, payload)
    \/ \E c \in Peers : MinLoopClosed(c)
    \/ \E c \in Peers : \E ws \in Peers : MinSent(c, ws)

MinSpec == MinInit /\ [][MinNext]_vars

\* C36: a registration with a username that a registered connection holds
\* leaves the new connection out of clients and of every room; no two
\* registered connections hold the same username
MinUniqueUsernames ==
    /\ [](\A c, d \in DOMAIN clients :
             clients[c].username = clients[d].username => c = d)
    /\ [][\A c \in Conns : \A u \in Usernames :
            (MinRegister(c, u) /\ \E w \in DOMAIN clients : clients[w].username = u) =>
               /\ c \notin DOMAIN clients'
               /\ \A r \in DOMAIN rooms' : c \notin rooms'[r]
         ]_vars

\* C37: whenever the handlers of other connections can run, a registered
\* connection is in the set of the room clients[ws]['room'] names and in
\* the set of no other room
MinAtomicTransfer ==
    \A c \in DOMAIN clients :
        /\ clients[c].room \in DOMAIN rooms
        /\ \A r \in DOMAIN rooms : (c \in rooms[r]) = (r = clients[c].room)

----------------------------------------------------------------------------
(* src/server.py: the single-file server.  ServerState.clients (websocket
   -> Client) and ServerState.rooms (room name -> Room.clients, a set of
   websockets) take the variables clients and rooms; client is the local
   variable of handle_connection, a reference to the Client object that
   outlives its removal from ServerState.clients; inbox counts the frames
   the library has read from the peer and holds for the handler, which
   recv() and `async for` hand over even after the connection has closed.
   A step is the code between two suspensions: the wait for a frame and
   the asyncio.gather of broadcast and of broadcast_room_list.  A send to
   the handler's own connection is taken together with the code that
   follows it and raises ConnectionClosed once that connection is closed. *)

MaxQueued == 1

SfRoomNames == {"general", "dev"}

SfPayloads ==
    {Frame(TRUE, "join_room", r, None) : r \in SfRoomNames}
    \cup {Frame(TRUE, a, None, None) :
             a \in {"leave_room", "list_rooms", "ping", "message"}}
    \cup {Frame(TRUE, "send_message", None, "hi")}
    \cup {Frame(TRUE, "create_room", "dev", None)}
    \cup {Frame(FALSE, None, None, None)}

\* Client(websocket, username): current_room defaults to "general"
SfClient(user) == [username |-> user, current_room |-> "general"]

\* no gather under way; otherwise the room broadcast was called for, the
\* dead_clients it found, the code that follows the call and the room_name
\* argument of handle_join_room
SfNoBcast == [room_name |-> None, dead |-> {}, next |-> None, new_room |-> None]

\* what the handler of one connection works on: the two dicts of
\* ServerState, its Client object, the direct replies it has sent and
\* whether it has entered `async with self.lock` since its last suspension
SfFrame(c) ==
    [rooms |-> rooms, clients |-> clients, client |-> client[c],
     replies |-> replies[c], locked |-> FALSE]

\* where the handler stands at its next suspension
SfResult(h, p, b) ==
    [rooms |-> h.rooms, clients |-> h.clients, client |-> h.client,
     replies |-> h.replies, locked |-> h.locked, pc |-> p, bcast |-> b]

\* the handler has entered `async with self.lock` (or self.state.lock)
sf_locked(h) == [h EXCEPT !.locked = TRUE]

\* ServerState.get_all_rooms, whose value the replies do not keep
sf_get_all_rooms(h) == sf_locked(h)

\* ServerState.register_client
sf_register_client(h, websocket, user) ==
    IF \E w \in DOMAIN h.clients : h.clients[w].username = user
    THEN [ret |-> FALSE, frame |-> sf_locked(h)]
    ELSE [ret |-> TRUE,
          frame |-> [sf_locked(h) EXCEPT
                        !.clients = Put(@, websocket, SfClient(user)),
                        !.rooms["general"] = @ \cup {websocket}]]

\* ServerState.unregister_client
sf_unregister_client(h, websocket) ==
    IF websocket \in DOMAIN h.clients
    THEN [sf_locked(h) EXCEPT
             !.clients = Del(@, websocket),
             !.rooms = Discard(@, h.clients[websocket].current_room, websocket)]
    ELSE sf_locked(h)

\* ServerState.create_room
sf_create_room(h, room_name) ==
    IF room_name \in DOMAIN h.rooms
    THEN [ret |-> FALSE, frame |-> sf_locked(h)]
    ELSE [ret |-> TRUE,
          frame |-> [sf_locked(h) EXCEPT !.rooms = Put(@, room_name, {})]]

\* ServerState.join_room; the Client object it changes is the one the
\* handler's variable client refers to
sf_join_room(h, websocket, new_room_name) ==
    IF websocket \notin DOMAIN h.clients \/ new_room_name \notin DOMAIN h.rooms
    THEN [ret |-> None, frame |-> sf_locked(h)]
    ELSE LET old_room_name == h.clients[websocket].current_room IN
         IF old_room_name # new_room_name
         THEN [ret |-> old_room_name,
               frame |->
                  [sf_locked(h) EXCEPT !.rooms = [Discard(@, old_room_name, websocket)
                                          EXCEPT ![new_room_name] = @ \cup {websocket}],
                            !.clients[websocket].current_room = new_room_name,
                            !.client.current_room = new_room_name]]
         ELSE [ret |-> old_room_name, frame |-> sf_locked(h)]

\* MessageHandler.broadcast, the part that follows the gather: the
\* dead_clients leave the room broadcast was called for and the clients dict
sf_cleanup(h, room_name, dead) ==
    IF dead = {}
    THEN h
    ELSE [sf_locked(h) EXCEPT !.rooms[room_name] = @ \ dead,
                              !.clients = [w \in DOMAIN @ \ dead |-> @[w]]]

\* a direct reply to the handler's own connection
sf_reply(h, text) == [h EXCEPT !.replies = Append(@, text)]

RECURSIVE sf_run(_, _, _, _)
RECURSIVE sf_broadcast(_, _, _, _, _, _)
RECURSIVE sf_broadcast_room_list(_, _, _)

\* MessageHandler.broadcast up to its gather, and past it when there is no
\* task to wait for
sf_broadcast(h, c, room_name, exclude_ws, next, new_room) ==
    IF room_name \notin DOMAIN h.rooms
    THEN sf_run(h, c, next, new_room)
    ELSE LET clients_to_iterate == h.rooms[room_name] \ {exclude_ws}
             tasks == {ws \in clients_to_iterate : open[ws]}
             dead_clients == clients_to_iterate \ tasks IN
         IF tasks # {}
         THEN SfResult(h, "gather",
                       [room_name |-> room_name, dead |-> dead_clients,
                        next |-> next, new_room |-> new_room])
         ELSE sf_run(sf_cleanup(h, room_name, dead_clients), c, next, new_room)

\* MessageHandler.broadcast_room_list
sf_broadcast_room_list(h, c, next) ==
    IF \E ws \in DOMAIN h.clients : open[ws]
    THEN SfResult(sf_get_all_rooms(h), "gather", [SfNoBcast EXCEPT !.next = next])
    ELSE sf_run(sf_get_all_rooms(h), c, next, None)

\* the code of handle_connection and of handle_join_room from one of its
\* statements to the next suspension
sf_run(h, c, label, new_room) ==
    CASE label = "welcome" ->
            \* the welcome reply, then the broadcast of the arrival
            IF open[c]
            THEN sf_broadcast(sf_reply(h, "Bienvenue"), c, "general", NoWs,
                              "list_rooms", None)
            ELSE sf_run(h, c, "finally", None)
      [] label = "list_rooms" ->
            \* handle_list_rooms for the new client, then broadcast_room_list
            IF open[c]
            THEN sf_broadcast_room_list(sf_reply(sf_get_all_rooms(h), "list_rooms"),
                                        c, "loop")
            ELSE sf_run(sf_get_all_rooms(h), c, "finally", None)
      [] label = "joined" ->
            \* handle_join_room: the broadcast to the new room
            sf_broadcast(h, c, new_room, NoWs, "success", None)
      [] label = "success" ->
            \* handle_join_room: the success reply
            IF open[c]
            THEN SfResult(sf_reply(h, "success"), "loop", SfNoBcast)
            ELSE sf_run(h, c, "finally", None)
      [] label = "finally" ->
            IF h.client.username # None
            THEN sf_broadcast(sf_unregister_client(h, c), c,
                              h.client.current_room, NoWs, "room_list", None)
            ELSE SfResult(h, "done", SfNoBcast)
      [] label = "room_list" ->
            sf_broadcast_room_list(h, c, "done")
      [] OTHER -> SfResult(h, label, SfNoBcast)

\* an error reply of a handler, after which the receive loop goes on
sf_error(h, c, text) ==
    IF open[c]
    THEN SfResult(sf_reply(h, text), "loop", SfNoBcast)
    ELSE sf_run(h, c, "finally", None)

\* MessageHandler.handle_join_room
sf_handle_join_room(h, c, room_name) ==
    IF room_name = None
    THEN sf_error(h, c, "Nom du salon manquant.")
    ELSE LET r == sf_join_room(h, c, room_name) IN
         IF r.ret # None
         THEN sf_broadcast(r.frame, c, r.ret, NoWs, "joined", room_name)
         ELSE sf_error(h, c, "n'existe pas")

\* the names getattr(self, f"handle_{action}", ...) finds on MessageHandler
SfHandlerMethods ==
    {"message", "unknown", "send_message", "create_room", "join_room",
     "leave_room", "list_rooms"}

\* getattr(self, f"handle_{message.action}", self.handle_unknown)
sf_getattr(action) ==
    IF action \in SfHandlerMethods THEN action ELSE "unknown"

\* one pass of the receive loop: ProtocolMessage.from_json and
\* MessageHandler.handle_message up to the first suspension
sf_handle_message(h, c, payload) ==
    IF ~payload.wellformed
    THEN sf_error(h, c, "Message mal formé")
    ELSE IF c \notin DOMAIN h.clients
    THEN sf_error(h, c, "Client non enregistré.")
    ELSE LET handler_method == sf_getattr(payload.action) IN
         CASE handler_method = "message" ->
                 \* handle_message itself, called with three arguments:
                 \* TypeError, caught by `except Exception` of handle_connection
                 sf_run(h, c, "finally", None)
           [] handler_method = "send_message" ->
                 IF payload.message = None
                 THEN sf_error(h, c, "Le message ne peut pas être vide.")
                 ELSE sf_broadcast(h, c, h.clients[c].current_room, c, "loop", None)
           [] handler_method = "create_room" ->
                 IF payload.room_name = None
                 THEN sf_error(h, c, "Nom du salon manquant.")
                 ELSE LET r == sf_create_room(h, payload.room_name) IN
                      IF ~r.ret
                      THEN sf_error(h, c, "existe déjà")
                      ELSE IF open[c]
                      THEN sf_broadcast_room_list(sf_reply(r.frame, "success"), c, "loop")
                      ELSE sf_run(r.frame, c, "finally", None)
           [] handler_method = "join_room" ->
                 sf_handle_join_room(h, c, payload.room_name)
           [] handler_method = "leave_room" ->
                 IF h.clients[c].current_room = "general"
                 THEN sf_error(h, c, "Vous ne pouvez pas quitter le salon général.")
                 ELSE sf_handle_join_room(h, c, "general")
           [] handler_method = "list_rooms" ->
                 sf_error(sf_get_all_rooms(h), c, "list_rooms")
           [] OTHER -> sf_error(h, c, "Action inconnue.")

\* ServerState.__init__
SfInit ==
    /\ rooms = [r \in {"general"} |-> {}]
    /\ clients = [w \in {} |-> SfClient(None)]
    /\ client = [c \in Conns |-> NoClient]
    /\ inbox = [c \in Conns |-> 0]
    /\ lock = NoWs
    /\ pc = [c \in Conns |-> "connecting"]
    /\ open = [c \in Conns |-> TRUE]
    /\ bcast = [c \in Conns |-> SfNoBcast]
    /\ replies = [c \in Conns |-> <<>>]
    /\ websocket_to_username = ServerState0.websocket_to_username
    /\ username = [c \in Conns |-> None]
    /\ response = [c \in Conns |-> NoResponse]

\* handler c is where r says; once it has returned the library closes the
\* connection and drops the frames it held
SfGoto(c, r, queued) ==
    /\ rooms' = r.rooms
    /\ clients' = r.clients
    /\ client' = [client EXCEPT ![c] = r.client]
    /\ replies' = [replies EXCEPT ![c] = r.replies]
    /\ pc' = [pc EXCEPT ![c] = r.pc]
    /\ bcast' = [bcast EXCEPT ![c] = r.bcast]
    /\ open' = [open EXCEPT ![c] = IF r.pc = "done" THEN FALSE ELSE @]
    /\ inbox' = [inbox EXCEPT ![c] = IF r.pc = "done" THEN 0 ELSE queued]
    /\ WithLock(c, r.locked)
    /\ UNCHANGED <<websocket_to_username, username, response>>

\* the peer sends a frame, which the library reads and holds
SfPeerSend(c) ==
    /\ pc[c] # "done"
    /\ Accepted(c)
    /\ open[c]
    /\ inbox[c] < MaxQueued
    /\ inbox' = [inbox EXCEPT ![c] = @ + 1]
    /\ UNCHANGED <<rooms, clients, websocket_to_username, pc, open, username,
                   response, bcast, replies, client, lock>>

\* handle_connection: the first frame carries the username (None: missing)
SfRegister(c, user) ==
    /\ pc[c] = "connecting"
    /\ inbox[c] > 0
    /\ IF user = None
       THEN SfGoto(c, SfResult(sf_reply(SfFrame(c), "Nom d'utilisateur manquant."),
                               "done", SfNoBcast), 0)
       ELSE LET r == sf_register_client(SfFrame(c), c, user) IN
            IF r.ret
            THEN SfGoto(c, sf_run([r.frame EXCEPT !.client = r.frame.clients[c]],
                                  c, "welcome", None), inbox[c] - 1)
            ELSE SfGoto(c, SfResult(sf_reply(r.frame, "est déjà pris."),
                                    "done", SfNoBcast), 0)

\* recv() raises on a connection closed before its first frame
SfRegisterClosed(c) ==
    /\ pc[c] = "connecting"
    /\ inbox[c] = 0
    /\ ~open[c]
    /\ SfGoto(c, SfResult(SfFrame(c), "done", SfNoBcast), 0)

\* the receive loop takes the next frame
SfRecv(c, payload) ==
    /\ pc[c] = "loop"
    /\ inbox[c] > 0
    /\ SfGoto(c, sf_handle_message([SfFrame(c) EXCEPT !.replies = <<>>], c, payload),
              inbox[c] - 1)

\* the receive loop ends: the connection is closed and no frame is left
SfLoopClosed(c) ==
    /\ pc[c] = "loop"
    /\ inbox[c] = 0
    /\ ~open[c]
    /\ SfGoto(c, sf_run(SfFrame(c), c, "finally", None), 0)

\* asyncio.gather has returned: the rest of broadcast, then its caller
SfGathered(c) ==
    /\ pc[c] = "gather"
    /\ SfGoto(c, sf_run(sf_cleanup(SfFrame(c), bcast[c].room_name, bcast[c].dead),
                        c, bcast[c].next, bcast[c].new_room), inbox[c])

SfNext ==
    \/ \E c \in Peers : Close(c)
    \/ \E c \in Peers : SfPeerSend(c)
    \/ \E c \in Peers, user \in Usernames \cup {None} : SfRegister(c, user)
    \/ \E c \in Peers : SfRegisterClosed(c)
    \/ \E c \in Peers, payload \in SfPayloads : SfRecv(c, payload)
    \/ \E c \in Peers : SfLoopClosed(c)
    \/ \E c \in Peers : SfGathered(c)

ServerSpec == SfInit /\ [][SfNext]_vars

\* C33: every connection in the clients set of a room has an entry in
\* ServerState.clients whose current_room is that room, and every entry of
\* ServerState.clients is in the clients set of its current_room
SfRoomsMatchClients ==
    /\ \A r \in DOMAIN rooms : \A ws \in rooms[r] :
          ws \in DOMAIN clients /\ clients[ws].current_room = r
    /\ \A ws \in DOMAIN clients :
          /\ clients[ws].current_room \in DOMAIN rooms
          /\ ws \in rooms[clients[ws].current_room]

\* the handler of c has handled a request and is back in its receive loop
\* (the replies of the welcome sequence begin with the welcome)
SfRequestServed(c) ==
    /\ pc[c] = "loop"
    /\ (replies[c] = <<>> \/ Head(replies[c]) # "Bienvenue")

\* C34: a request a registered connection sends in the receive loop gets
\* exactly one message sent directly to that connection
SfOneReply ==
    \A c \in Conns : SfRequestServed(c) => Len(replies[c]) = 1

\* the frames whose action is none of the five of the protocol
SfUnknownRequests ==
    {p \in SfPayloads :
        /\ p.wellformed
        /\ p.action \notin {"send_message", "create_room", "join_room",
                            "leave_room", "list_rooms"}}

\* C35: a frame of a registered, open connection whose action is none of
\* the five of the protocol is answered with the unknown-action error,
\* changes neither dict of ServerState and leaves the handler in its
\* receive loop
SfUnknownAction ==
    [][\A c \in Conns : \A p \in SfUnknownRequests :
          (SfRecv(c, p) /\ c \in DOMAIN clients /\ open[c]) =>
             /\ replies'[c] = <<"Action inconnue.">>
             /\ pc'[c] = "loop"
             /\ rooms' = rooms
             /\ clients' = clients
      ]_vars

----------------------------------------------------------------------------
(* The event loop runs every task that is ready: a handler whose next step
   does not wait for the peer takes that step. *)

Fairness ==
    \A c \in Peers :
        /\ WF_vars(RegisterClosed(c))
        /\ WF_vars(Welcome(c))
        /\ WF_vars(LoopClosed(c))
        /\ WF_vars(\E ws \in Peers : Deliver(c, ws))
        /\ WF_vars(SendReply(c))

\* the steps of the modular server when Peers are the connections it serves
FairNext ==
    \/ \E c \in Peers : Close(c)
    \/ \E c \in Peers, user \in Usernames \cup {None} : Register(c, user)
    \/ \E c \in Peers : RegisterClosed(c)
    \/ \E c \in Peers : Welcome(c)
    \/ \E c \in Peers, payload \in Payloads : Recv(c, payload)
    \/ \E c \in Peers : LoopClosed(c)
    \/ \E c \in Peers : \E ws \in Peers : Deliver(c, ws)
    \/ \E c \in Peers : SendReply(c)

FairSpec == Init /\ [][FairNext]_vars /\ Fairness

\* the handler of c is bound to call remove_client, which takes the lock:
\* its connection is closed and its finally block has not run
LockRequested(c) == ~open[c] /\ username[c] # None /\ pc[c] # "done"

SfLockFree == lock = NoWs

\* a broadcast that found dead clients waits in its gather
SfLockFreeWitness ==
    \E c \in Conns : pc[c] = "gather" /\ bcast[c].dead # {}

====
